---- MODULE Spec2Model ----
(***************************************************************************)
(* transmake (src/transmake.c): reads a 256-colour palette and writes one  *)
(* 256x256 translucency table per requested alpha level.                   *)
(*                                                                         *)
(* Strings are sequences of character codes, so that stricmp, isdigit and  *)
(* the arithmetic on characters are modelled by what they do.  Colour      *)
(* channels and alpha amounts keep their 8-bit values.  The number of      *)
(* palette entries (256 in the source) is PalCount; PALSIZE, the table     *)
(* size and the loop limits follow from it as they do in the source.       *)
(***************************************************************************)
EXTENDS Integers, Sequences, FiniteSets, TLC

\* ------------------------------------------------------------------ bounds

\* Palette entries (the source's 256).
PalCount == 3
\* Command-line arguments after argv[0] in the parser's specification.
MaxArgs == 4
\* Length of an -outfiles string in the program's specification.
MaxOutLen == 3
\* Output files that fail to open in one run.
MaxOpenFailures == 1

\* ------------------------------------------------------- program constants

NULL == 0
AST_TRANSLUCENT == 0
AST_ADD == 1
AST_SUBTRACT == 2
AST_REVERSESUBTRACT == 3
AST_MODULATE == 4
\* #define PALSIZE (256 * 3)
PALSIZE == PalCount * 3
\* static unsigned char working[65536]
WorkingSize == PalCount * PalCount
\* int canblend[9]
CanblendLen == 9
\* bestdistortion = 256 * 256 * 4
InitialBestDistortion == 262144
\* unsigned char
ByteMod == 256

Styles == {AST_TRANSLUCENT, AST_ADD, AST_SUBTRACT, AST_REVERSESUBTRACT, AST_MODULATE}

\* ---------------------------------------------------------------- strings

S_palette == <<112, 97, 108, 101, 116, 116, 101>>  \* "palette"
S_outfiles == <<111, 117, 116, 102, 105, 108, 101, 115>>  \* "outfiles"
S_outprefix == <<111, 117, 116, 112, 114, 101, 102, 105, 120>>  \* "outprefix"
S_blendstyle == <<98, 108, 101, 110, 100, 115, 116, 121, 108, 101>>  \* "blendstyle"
S_translucent == <<116, 114, 97, 110, 115, 108, 117, 99, 101, 110, 116>>  \* "translucent"
S_add == <<97, 100, 100>>  \* "add"
S_subtract == <<115, 117, 98, 116, 114, 97, 99, 116>>  \* "subtract"
S_reversesubtract == <<114, 101, 118, 101, 114, 115, 101, 115, 117, 98, 116, 114, 97, 99, 116>>  \* "reversesubtract"
S_modulate == <<109, 111, 100, 117, 108, 97, 116, 101>>  \* "modulate"
defaultprefix == <<84, 82, 65, 78, 83>>  \* "TRANS"
defaultoutfiles == <<49, 50, 51, 52, 53, 54, 55, 56, 57>>  \* "123456789"

\* Command-line words of the model's inputs.
A_prog == <<116, 114, 97, 110, 115, 109, 97, 107, 101>>  \* "transmake"
A_palette == <<45, 112, 97, 108, 101, 116, 116, 101>>  \* "-palette"
A_PALETTE == <<45, 80, 65, 76, 69, 84, 84, 69>>  \* "-PALETTE"
A_outfiles == <<45, 111, 117, 116, 102, 105, 108, 101, 115>>  \* "-outfiles"
A_outprefix == <<45, 111, 117, 116, 112, 114, 101, 102, 105, 120>>  \* "-outprefix"
A_blendstyle == <<45, 98, 108, 101, 110, 100, 115, 116, 121, 108, 101>>  \* "-blendstyle"
A_BlendStyle == <<45, 66, 108, 101, 110, 100, 83, 116, 121, 108, 101>>  \* "-BlendStyle"
A_pal == <<112, 46, 112, 97, 108>>  \* "p.pal"
A_Add == <<65, 100, 100>>  \* "Add"
A_MODULATE == <<77, 79, 68, 85, 76, 65, 84, 69>>  \* "MODULATE"
A_bogus == <<98, 111, 103, 117, 115>>  \* "bogus"
A_pre == <<84>>  \* "T"

\* tolower() in the C locale.
ToLower(c) == IF c >= 65 /\ c <= 90 THEN c + 32 ELSE c

\* !stricmp(a, b): equal when compared without regard to case.
StrIEq(a, b) ==
    /\ Len(a) = Len(b)
    /\ \A k \in 1..Len(a) : ToLower(a[k]) = ToLower(b[k])

\* isdigit() in the C locale.
IsDigit(c) == c >= 48 /\ c <= 57

\* ------------------------------------------------------------- arithmetic

\* C integer division and float-to-integer conversion truncate toward zero.
TruncDiv(n, d) == IF n >= 0 THEN n \div d ELSE -((-n) \div d)

Min(a, b) == IF a < b THEN a ELSE b
Max(a, b) == IF a > b THEN a ELSE b

RECURSIVE Pow2(_)
Pow2(k) == IF k = 0 THEN 1 ELSE 2 * Pow2(k - 1)

\* Bits of n above the 24 a float's significand holds.
RECURSIVE ExcessBits(_)
ExcessBits(n) == IF n < 16777216 THEN 0 ELSE 1 + ExcessBits(n \div 2)

\* n / d (d > 0) rounded to the nearest integer, ties to even.
RoundDivEven(n, d) ==
    LET q == n \div d
        r == n % d
    IN  IF 2 * r < d THEN q
        ELSE IF 2 * r > d THEN q + 1
        ELSE IF q % 2 = 0 THEN q ELSE q + 1

\* The float nearest to the non-negative fixed-point value n (any fixed scale
\* that is a power of two): n rounded to 24 significant bits, ties to even.
FloatRound(n) ==
    LET e == ExcessBits(n)
    IN  IF e = 0 THEN n ELSE RoundDivEven(n, Pow2(e)) * Pow2(e)

\* Signed variant, for sums that may be negative.
FloatRoundS(n) == IF n >= 0 THEN FloatRound(n) ELSE -FloatRound(-n)

\* Scale of the fixed-point values below: amounts in T_BlendTrans are in
\* units of 2^-19 (the spacing of floats in [16, 32)), amounts in
\* ASTBlendPixel in units of 2^-8 (division by 256.0f).
AmtScale == 524288
AlphaScale == 256

\* float amtmul = (256.0f / 10.0f): the float nearest to 25.6.
amtmul == RoundDivEven(256 * AmtScale, 10)

\* unsigned char blendamt = (amtmul * trans): a float product, truncated.
\* (variant: the product rounded to nearest instead of truncated)
BlendAmtMutant(trans) == ((trans * 256) + 5) \div 10
BlendAmt(trans) == TruncDiv(FloatRound(amtmul * trans), AmtScale) % ByteMod

\* ------------------------------------------------------------------ state

VARIABLES
    argv,              \* the command line handed to main (argv[0] first)
    palfile,           \* what the file system holds for the palette path
    parm_argc,
    parm_argv,
    parm_palettefile,  \* index into parm_argv, or NULL
    parm_outprefix,    \* index into parm_argv, or NULL
    parm_outfiles,     \* index into parm_argv, or NULL
    blendstyle,
    rpalette,
    palette,
    working,
    pc,                \* where the program is
    i,                 \* the loop counter of Parm_Parse and of T_DoMain
    outfiles,          \* T_DoMain's outfiles string
    canblend,
    cbwrites,          \* every index of canblend the digit scan has written
    fp,                \* T_DoMain's FILE pointer: "none", "open", "null", "closed"
    trans,             \* T_BlendTrans's argument
    blendamt,
    x,
    y,
    log,               \* the output-file operations made so far, in order
    exit_status,       \* "running", or the status the process ended with
    errors,            \* the number of T_OutputError messages printed
    bp_in,             \* ASTBlendPixel applied on its own: arguments
    bp_out,            \*   and result
    np_in,             \* NearestPaletteColor applied on its own: arguments
    np_out             \*   and result

vars == <<argv, palfile, parm_argc, parm_argv, parm_palettefile, parm_outprefix,
          parm_outfiles, blendstyle, rpalette, palette, working, pc, i,
          outfiles, canblend, cbwrites, fp, trans, blendamt, x, y, log,
          exit_status, errors, bp_in, bp_out, np_in, np_out>>

parmVars == <<parm_palettefile, parm_outprefix, parm_outfiles, blendstyle>>
palVars == <<rpalette, palette>>
mainVars == <<outfiles, canblend, cbwrites, fp, log>>
transVars == <<trans, blendamt, x, y>>
pureVars == <<bp_in, bp_out, np_in, np_out>>

\* parm_argv[k] of the source (C indices start at 0).
Argv(k) == parm_argv[k + 1]

\* ------------------------------------------------------------------ colours

\* RGBA_t: four unsigned chars (rgba is the same storage read as one word).
RGBA(r, g, b, a) == [red |-> r, green |-> g, blue |-> b, alpha |-> a]

\* Static storage starts zeroed.
ZeroRGBA == RGBA(0, 0, 0, 0)

\* What an uninitialised RGBA_t local may hold.
Garbage == {RGBA(0, 0, 0, 0), RGBA(255, 1, 77, 3)}

\* ------------------------------------------------------ NearestPaletteColor

\* if (distortion < bestdistortion)
\* (variant: <=, which keeps the last minimum)
CloserMutant(distortion, bestdistortion) == distortion <= bestdistortion
Closer(distortion, bestdistortion) == distortion < bestdistortion

\* distortion = dr*dr + dg*dg + db*db against palette[k]
Distortion(r, g, b, k) ==
    LET dr == r - palette[k].red
        dg == g - palette[k].green
        db == b - palette[k].blue
    IN  dr * dr + dg * dg + db * db

\* The for loop from index k on, with the locals bestdistortion and bestcolor.
RECURSIVE NearestScan(_, _, _, _, _, _)
NearestScan(r, g, b, k, bestdistortion, bestcolor) ==
    IF k >= PalCount THEN bestcolor % ByteMod
    ELSE LET distortion == Distortion(r, g, b, k)
         IN  IF Closer(distortion, bestdistortion)
             THEN IF distortion = 0 THEN k % ByteMod
                  ELSE NearestScan(r, g, b, k + 1, distortion, k)
             ELSE NearestScan(r, g, b, k + 1, bestdistortion, bestcolor)

NearestPaletteColor(r, g, b) == NearestScan(r, g, b, 0, InitialBestDistortion, 0)

\* ------------------------------------------------------------ ASTBlendPixel

\* #define clamp(c) max(min(c, 0xFF), 0x00)
\* (variant: no clamping)
ClampMutant(c) == c
Clamp(c) == Max(Min(c, 255), 0)

\* ((background * beta) + (foreground * alpha)) / 0xFF, beta = 0xFF - alpha,
\* stored in an unsigned char.
\* (variant: division by 256)
TranslucentChannelMutant(b, f, alpha) ==
    (((b * ((255 - alpha) % ByteMod)) + (f * alpha)) \div 256) % ByteMod
TranslucentChannel(b, f, alpha) ==
    LET beta == (255 - alpha) % ByteMod
    IN  TruncDiv((b * beta) + (f * alpha), 255) % ByteMod

\* clamp((int)(sum)) stored in an unsigned char; sum is a float in units of
\* 1/256.
ClampedChannel(sum) == Clamp(TruncDiv(FloatRoundS(sum), AlphaScale)) % ByteMod

\* One channel of a non-translucent style.  falpha = alpha / 256.0f and
\* fr = foreground * falpha are floats in units of 1/256.
StyledChannel(b, f, style, alpha, old) ==
    LET falpha == FloatRound(alpha)
        fr == FloatRound(f * falpha)
    IN  IF style = AST_ADD THEN ClampedChannel(b * AlphaScale + fr)
        ELSE IF style = AST_SUBTRACT THEN ClampedChannel(b * AlphaScale - fr)
        ELSE IF style = AST_REVERSESUBTRACT THEN ClampedChannel((-b) * AlphaScale + fr)
        ELSE IF style = AST_MODULATE THEN ClampedChannel(FloatRound(b * FloatRound(f)))
        ELSE old

\* ASTBlendPixel; garbage is what the local `output` holds before any
\* assignment.
ASTBlendPixel(background, foreground, style, alpha, garbage) ==
    LET fullalpha == alpha - (255 - foreground.alpha)
    IN  IF style = AST_TRANSLUCENT
        THEN IF fullalpha <= 0 THEN background
             ELSE LET a == IF fullalpha >= 255 THEN 255 ELSE fullalpha
                  IN  IF background.alpha = 0
                      THEN [garbage EXCEPT !.alpha = 0]
                      ELSE RGBA(TranslucentChannel(background.red, foreground.red, a),
                                TranslucentChannel(background.green, foreground.green, a),
                                TranslucentChannel(background.blue, foreground.blue, a),
                                255)
        ELSE RGBA(StyledChannel(background.red, foreground.red, style, alpha, garbage.red),
                  StyledChannel(background.green, foreground.green, style, alpha, garbage.green),
                  StyledChannel(background.blue, foreground.blue, style, alpha, garbage.blue),
                  255)

\* ------------------------------------------------------------- T_BlendTrans

\* One pass of the inner loop's body: the byte stored for (y, x).
BlendCell(cy, cx, amt, garbage) ==
    LET result == ASTBlendPixel(palette[cy % ByteMod], palette[cx % ByteMod],
                                blendstyle, amt, garbage)
    IN  NearestPaletteColor(result.red, result.green, result.blue)

\* working[((y * 256) + x)]
CellOffset(cy, cx) == (cy * PalCount) + cx

\* The table T_BlendTrans leaves behind is built cell by cell:

\* T_BlendTrans(t), up to the first pass of the loops.
T_BlendTrans_Enter(t) ==
    /\ trans' = t
    /\ blendamt' = BlendAmt(t)
    /\ y' = 0
    /\ x' = 0
    /\ pc' = "bt_loop"

\* for (x = 0; x < 256; x++): the limit of the inner loop.
\* (variant: x < 255)
InnerLimitMutant == PalCount - 1
InnerLimit == PalCount

\* One pass of the inner loop, and the loop steps that follow it.
BT_Cell ==
    /\ pc = "bt_loop"
    /\ y < PalCount
    /\ \E garbage \in Garbage :
          working' = [working EXCEPT
                         ![CellOffset(y, x)] = BlendCell(y, x, blendamt, garbage)]
    /\ IF x + 1 < InnerLimit
       THEN x' = x + 1 /\ y' = y
       ELSE x' = 0 /\ y' = y + 1
    /\ UNCHANGED <<argv, palfile, parm_argc, parm_argv, parmVars, palVars, pc,
                   i, mainVars, trans, blendamt, exit_status, errors, pureVars>>

\* The outer loop ends and T_BlendTrans returns.
BT_Return ==
    /\ pc = "bt_loop"
    /\ y >= PalCount
    /\ pc' = "bt_returned"
    /\ UNCHANGED <<argv, palfile, parm_argc, parm_argv, parmVars, palVars,
                   working, i, mainVars, transVars, exit_status, errors, pureVars>>

\* ------------------------------------------------------------------- main

\* exit(status), or the return from main.
Exit(status) ==
    /\ pc' = "exit"
    /\ exit_status' = status

\* The process is killed (a fault after undefined behaviour).
Crash ==
    /\ pc' = "exit"
    /\ exit_status' = "crashed"

\* main: argc < 2 prints the usage text to stderr and exits.
MainUsage ==
    /\ pc = "start"
    /\ Len(argv) < 2
    /\ Exit("EXIT_FAILURE")
    /\ UNCHANGED <<argv, palfile, parm_argc, parm_argv, parmVars, palVars,
                   working, i, mainVars, transVars, errors, pureVars>>

\* main: parm_argv = argv; parm_argc = argc; Parm_Parse starts at i = 1.
MainStart ==
    /\ pc = "start"
    /\ Len(argv) >= 2
    /\ parm_argv' = argv
    /\ parm_argc' = Len(argv)
    /\ i' = 1
    /\ pc' = "parse"
    /\ UNCHANGED <<argv, palfile, parmVars, palVars, working, mainVars,
                   transVars, exit_status, errors, pureVars>>

\* The value -blendstyle leaves in blendstyle.
\* (variant: an unrecognised name resets the style)
ParseBlendStyleMutant(stylestring, old) ==
    IF StrIEq(stylestring, S_add) THEN AST_ADD
    ELSE IF StrIEq(stylestring, S_subtract) THEN AST_SUBTRACT
    ELSE IF StrIEq(stylestring, S_reversesubtract) THEN AST_REVERSESUBTRACT
    ELSE IF StrIEq(stylestring, S_modulate) THEN AST_MODULATE
    ELSE AST_TRANSLUCENT
ParseBlendStyle(stylestring, old) ==
    IF StrIEq(stylestring, S_translucent) THEN AST_TRANSLUCENT
    ELSE IF StrIEq(stylestring, S_add) THEN AST_ADD
    ELSE IF StrIEq(stylestring, S_subtract) THEN AST_SUBTRACT
    ELSE IF StrIEq(stylestring, S_reversesubtract) THEN AST_REVERSESUBTRACT
    ELSE IF StrIEq(stylestring, S_modulate) THEN AST_MODULATE
    ELSE old

\* Parm_ParseParameter(parmstring, p_argc); its result goes to Parm_Parse's i.
Parm_ParseParameter(parmstring, p_argc) ==
    /\ i' = p_argc + 1
    /\ IF p_argc >= parm_argc
       THEN UNCHANGED parmVars
       ELSE IF StrIEq(parmstring, S_palette)
       THEN /\ parm_palettefile' = p_argc
            /\ UNCHANGED <<parm_outprefix, parm_outfiles, blendstyle>>
       ELSE IF StrIEq(parmstring, S_outfiles)
       THEN /\ parm_outfiles' = IF Len(Argv(p_argc)) > 0 THEN p_argc ELSE parm_outfiles
            /\ UNCHANGED <<parm_palettefile, parm_outprefix, blendstyle>>
       ELSE IF StrIEq(parmstring, S_outprefix)
       THEN /\ parm_outprefix' = p_argc
            /\ UNCHANGED <<parm_palettefile, parm_outfiles, blendstyle>>
       ELSE IF StrIEq(parmstring, S_blendstyle)
       THEN /\ blendstyle' = ParseBlendStyle(Argv(p_argc), blendstyle)
            /\ UNCHANGED <<parm_palettefile, parm_outprefix, parm_outfiles>>
       ELSE UNCHANGED parmVars

\* parmstring[0] == '-' && parmstring[1]
IsOption(parmstring) == Len(parmstring) >= 2 /\ parmstring[1] = 45

\* Parm_Parse: one pass of the loop on an option.
ParseOption ==
    /\ pc = "parse"
    /\ i < parm_argc
    /\ IsOption(Argv(i))
    /\ Parm_ParseParameter(Tail(Argv(i)), i + 1)
    /\ UNCHANGED <<argv, palfile, parm_argc, parm_argv, palVars, working, pc,
                   mainVars, transVars, exit_status, errors, pureVars>>

\* Parm_Parse: one pass of the loop on any other word.
ParseSkip ==
    /\ pc = "parse"
    /\ i < parm_argc
    /\ ~IsOption(Argv(i))
    /\ i' = i + 1
    /\ UNCHANGED <<argv, palfile, parm_argc, parm_argv, parmVars, palVars,
                   working, pc, mainVars, transVars, exit_status, errors, pureVars>>

\* Parm_Parse returns.
ParseEnd ==
    /\ pc = "parse"
    /\ i >= parm_argc
    /\ pc' = "palette"
    /\ UNCHANGED <<argv, palfile, parm_argc, parm_argv, parmVars, palVars,
                   working, i, mainVars, transVars, exit_status, errors, pureVars>>

\* main: parm_palettefile == NULL.
PaletteMissing ==
    /\ pc = "palette"
    /\ parm_palettefile = NULL
    /\ errors' = errors + 1
    /\ Exit("EXIT_FAILURE")
    /\ UNCHANGED <<argv, palfile, parm_argc, parm_argv, parmVars, palVars,
                   working, i, mainVars, transVars, pureVars>>

\* Pal_Read: fopen returns NULL.
PalReadOpenFail ==
    /\ pc = "palette"
    /\ parm_palettefile # NULL
    /\ ~palfile.openable
    /\ errors' = errors + 1
    /\ Exit("EXIT_FAILURE")
    /\ UNCHANGED <<argv, palfile, parm_argc, parm_argv, parmVars, palVars,
                   working, i, mainVars, transVars, pureVars>>

\* Pal_Read: size < PALSIZE.
PalReadSizeFail ==
    /\ pc = "palette"
    /\ parm_palettefile # NULL
    /\ palfile.openable
    /\ Len(palfile.data) < PALSIZE
    /\ errors' = errors + 1
    /\ Exit("EXIT_FAILURE")
    /\ UNCHANGED <<argv, palfile, parm_argc, parm_argv, parmVars, palVars,
                   working, i, mainVars, transVars, pureVars>>

\* Pal_Read: fread(&rpalette, PALSIZE, 1, fp) != 1.
PalReadReadFail ==
    /\ pc = "palette"
    /\ parm_palettefile # NULL
    /\ palfile.openable
    /\ Len(palfile.data) >= PALSIZE
    /\ ~palfile.readable
    /\ errors' = errors + 1
    /\ Exit("EXIT_FAILURE")
    /\ UNCHANGED <<argv, palfile, parm_argc, parm_argv, parmVars, palVars,
                   working, i, mainVars, transVars, pureVars>>

\* The body of the "Make RGBA palette" loop for the triple at rp[j].
\* (variant: alpha left at 0)
PalEntryMutant(rp, j) == RGBA(rp[j], rp[j + 1], rp[j + 2], 0)
PalEntry(rp, j) == RGBA(rp[j], rp[j + 1], rp[j + 2], 255)

\* for (i = 0, j = 0; i < 256, j < PALSIZE; i++, j += 3): the comma makes
\* j < PALSIZE the condition; pass k has i = k and j = 3k.
MakePalette(rp, old) ==
    [k \in 0..(PALSIZE - 1) |->
        IF 3 * k < PALSIZE THEN PalEntry(rp, 3 * k) ELSE old[k]]

\* Pal_Read reads the file and fills the palette.
PalReadOk ==
    /\ pc = "palette"
    /\ parm_palettefile # NULL
    /\ palfile.openable
    /\ Len(palfile.data) >= PALSIZE
    /\ palfile.readable
    /\ rpalette' = [j \in 0..(PALSIZE - 1) |-> palfile.data[j + 1]]
    /\ palette' = MakePalette(rpalette', palette)
    /\ pc' = "domain"
    /\ UNCHANGED <<argv, palfile, parm_argc, parm_argv, parmVars, working, i,
                   mainVars, transVars, exit_status, errors, pureVars>>

\* ---------------------------------------------------------------- T_DoMain

\* T_DoMain: malloc returns NULL.
DoMainNoMemory ==
    /\ pc = "domain"
    /\ errors' = errors + 1
    /\ Exit("EXIT_FAILURE")
    /\ UNCHANGED <<argv, palfile, parm_argc, parm_argv, parmVars, palVars,
                   working, i, mainVars, transVars, pureVars>>

\* T_DoMain up to the digit scan: the locals, and canblend cleared.
DoMainEnter ==
    /\ pc = "domain"
    /\ outfiles' = IF parm_outfiles = NULL THEN defaultoutfiles ELSE Argv(parm_outfiles)
    /\ canblend' = [k \in 0..(CanblendLen - 1) |-> 0]
    /\ i' = 0
    /\ pc' = "dm_scan"
    /\ UNCHANGED <<argv, palfile, parm_argc, parm_argv, parmVars, palVars,
                   working, cbwrites, fp, log, transVars, exit_status, errors,
                   pureVars>>

\* ((outfiles[i]) - '0') - 1
\* (variant: the - 1 forgotten)
CanblendIndexMutant(c) == c - 48
CanblendIndex(c) == (c - 48) - 1

\* The digit scan on a character that is no digit, or whose index is in
\* canblend.
DoMainScan ==
    /\ pc = "dm_scan"
    /\ i < Len(outfiles)
    /\ LET c == outfiles[i + 1]
       IN  IF IsDigit(c)
           THEN /\ CanblendIndex(c) \in DOMAIN canblend
                /\ canblend' = [canblend EXCEPT ![CanblendIndex(c)] = 1]
                /\ cbwrites' = cbwrites \cup {CanblendIndex(c)}
           ELSE UNCHANGED <<canblend, cbwrites>>
    /\ i' = i + 1
    /\ UNCHANGED <<argv, palfile, parm_argc, parm_argv, parmVars, palVars,
                   working, pc, outfiles, fp, log, transVars, exit_status,
                   errors, pureVars>>

\* The digit scan on a digit whose index is outside canblend: the store is
\* undefined behaviour.  It lands in whatever is next to canblend on the
\* stack: nothing the function reads again, the loop counter i, or something
\* whose loss faults the process.
DoMainScanOutside ==
    /\ pc = "dm_scan"
    /\ i < Len(outfiles)
    /\ IsDigit(outfiles[i + 1])
    /\ CanblendIndex(outfiles[i + 1]) \notin DOMAIN canblend
    /\ cbwrites' = cbwrites \cup {CanblendIndex(outfiles[i + 1])}
    /\ \E outcome \in {"unused", "counter", "fault"} :
          IF outcome = "unused" THEN i' = i + 1 /\ UNCHANGED <<pc, exit_status>>
          ELSE IF outcome = "counter" THEN i' = 1 + 1 /\ UNCHANGED <<pc, exit_status>>
          ELSE Crash /\ UNCHANGED i
    /\ UNCHANGED <<argv, palfile, parm_argc, parm_argv, parmVars, palVars,
                   working, outfiles, canblend, fp, log, transVars, errors,
                   pureVars>>

\* The digit scan ends; the blend loop starts at i = 1.
DoMainScanEnd ==
    /\ pc = "dm_scan"
    /\ i >= Len(outfiles)
    /\ i' = 1
    /\ pc' = "dm_level"
    /\ UNCHANGED <<argv, palfile, parm_argc, parm_argv, parmVars, palVars,
                   working, mainVars, transVars, exit_status, errors, pureVars>>

\* if (!canblend[i-1]) continue;
DoMainLevelSkip ==
    /\ pc = "dm_level"
    /\ i <= 9
    /\ canblend[i - 1] = 0
    /\ i' = i + 1
    /\ UNCHANGED <<argv, palfile, parm_argc, parm_argv, parmVars, palVars,
                   working, pc, mainVars, transVars, exit_status, errors,
                   pureVars>>

\* Output files that failed to open so far.
OpenFailures == Cardinality({k \in 1..Len(log) : log[k].op = "open" /\ ~log[k].ok})

\* sprintf into filename, then fp = fopen(filename, "wb"), which may fail.
\* filename holds strlen(prefix) + 6 bytes and sprintf stores
\* strlen(prefix) + 7: the terminating byte is written past its end
\* (undefined behaviour), here with no effect the run shows.
DoMainOpen ==
    /\ pc = "dm_level"
    /\ i <= 9
    /\ canblend[i - 1] # 0
    /\ \E ok \in BOOLEAN :
          /\ ~ok => OpenFailures < MaxOpenFailures
          /\ fp' = IF ok THEN "open" ELSE "null"
          /\ log' = Append(log, [op |-> "open", level |-> i, ok |-> ok, data |-> <<>>])
    /\ pc' = "dm_blend"
    /\ UNCHANGED <<argv, palfile, parm_argc, parm_argv, parmVars, palVars,
                   working, i, outfiles, canblend, cbwrites, transVars,
                   exit_status, errors, pureVars>>

\* char *prefix = (parm_outprefix == NULL) ? defaultprefix : parm_outprefix
Prefix == IF parm_outprefix = NULL THEN defaultprefix ELSE Argv(parm_outprefix)

\* filename = malloc(strlen(prefix) + 6)
FilenameSize == Len(Prefix) + 6

\* The bytes sprintf(filename, "%s%d0.lmp", prefix, i) stores for i in 1..9:
\* the prefix, one digit, "0.lmp" and the terminating byte.
FilenameStored == Len(Prefix) + 1 + 5 + 1

\* The same sprintf, where the byte written past filename faults the process.
DoMainSprintfFault ==
    /\ pc = "dm_level"
    /\ i <= 9
    /\ canblend[i - 1] # 0
    /\ FilenameStored > FilenameSize
    /\ Crash
    /\ UNCHANGED <<argv, palfile, parm_argc, parm_argv, parmVars, palVars,
                   working, i, mainVars, transVars, errors, pureVars>>

\* T_BlendTrans(i);
DoMainBlend ==
    /\ pc = "dm_blend"
    /\ T_BlendTrans_Enter(i)
    /\ log' = Append(log, [op |-> "blend", level |-> i, ok |-> TRUE, data |-> <<>>])
    /\ UNCHANGED <<argv, palfile, parm_argc, parm_argv, parmVars, palVars,
                   working, i, outfiles, canblend, cbwrites, fp, exit_status,
                   errors, pureVars>>

\* fwrite(&working, 1, 65536, fp) on an open file.
DoMainWrite ==
    /\ pc = "bt_returned"
    /\ fp = "open"
    /\ log' = Append(log, [op |-> "write", level |-> i, ok |-> TRUE, data |-> working])
    /\ pc' = "dm_close"
    /\ UNCHANGED <<argv, palfile, parm_argc, parm_argv, parmVars, palVars,
                   working, i, outfiles, canblend, cbwrites, fp, transVars,
                   exit_status, errors, pureVars>>

\* fwrite(&working, 1, 65536, fp) with fp == NULL: undefined behaviour.  The
\* library faults, or rejects the stream and returns.
DoMainWriteNull ==
    /\ pc = "bt_returned"
    /\ fp = "null"
    /\ log' = Append(log, [op |-> "write", level |-> i, ok |-> FALSE, data |-> working])
    /\ \E outcome \in {"returns", "fault"} :
          IF outcome = "returns" THEN pc' = "dm_close" /\ UNCHANGED exit_status
          ELSE Crash
    /\ UNCHANGED <<argv, palfile, parm_argc, parm_argv, parmVars, palVars,
                   working, i, outfiles, canblend, cbwrites, fp, transVars,
                   errors, pureVars>>

\* fclose(fp) on an open file; the loop goes on to the next level.
DoMainClose ==
    /\ pc = "dm_close"
    /\ fp = "open"
    /\ fp' = "closed"
    /\ i' = i + 1
    /\ pc' = "dm_level"
    /\ UNCHANGED <<argv, palfile, parm_argc, parm_argv, parmVars, palVars,
                   working, outfiles, canblend, cbwrites, log, transVars,
                   exit_status, errors, pureVars>>

\* fclose(fp) with fp == NULL: undefined behaviour, as for fwrite.
DoMainCloseNull ==
    /\ pc = "dm_close"
    /\ fp = "null"
    /\ \E outcome \in {"returns", "fault"} :
          IF outcome = "returns"
          THEN i' = i + 1 /\ pc' = "dm_level" /\ UNCHANGED exit_status
          ELSE Crash /\ UNCHANGED i
    /\ UNCHANGED <<argv, palfile, parm_argc, parm_argv, parmVars, palVars,
                   working, mainVars, transVars, errors, pureVars>>

\* The blend loop ends, T_DoMain returns and main returns 0.
DoMainDone ==
    /\ pc = "dm_level"
    /\ i > 9
    /\ Exit("EXIT_SUCCESS")
    /\ UNCHANGED <<argv, palfile, parm_argc, parm_argv, parmVars, palVars,
                   working, i, mainVars, transVars, errors, pureVars>>

\* ------------------------------------------- functions applied on their own

\* T_BlendTrans called for any level, any number of times.
TableCall ==
    /\ pc \in {"bt_idle", "bt_returned"}
    /\ \E t \in 1..9 : T_BlendTrans_Enter(t)
    /\ UNCHANGED <<argv, palfile, parm_argc, parm_argv, parmVars, palVars,
                   working, i, mainVars, exit_status, errors, pureVars>>

\* Channel values and alpha amounts the functions are applied to.
BlendColors ==
    {RGBA(r, g, 255 - r, a) : r \in {0, 100, 255}, g \in {1, 200}, a \in {0, 100, 255}}
AlphaSamples == {0, 1, 25, 51, 76, 102, 128, 153, 179, 204, 230, 254, 255}

\* ASTBlendPixel applied to one pair of colours.
BlendCall ==
    /\ pc = "bp_idle"
    /\ \E bg \in BlendColors, fg \in BlendColors, style \in Styles,
          alpha \in AlphaSamples, garbage \in Garbage :
          /\ bp_in' = [background |-> bg, foreground |-> fg, style |-> style,
                       alpha |-> alpha]
          /\ bp_out' = ASTBlendPixel(bg, fg, style, alpha, garbage)
    /\ pc' = "bp_done"
    /\ UNCHANGED <<argv, palfile, parm_argc, parm_argv, parmVars, palVars,
                   working, i, mainVars, transVars, exit_status, errors, np_in,
                   np_out>>

\* Colours the nearest-colour search is asked for.
NearestTriples == {<<0, 0, 0>>, <<10, 0, 0>>, <<0, 10, 0>>, <<255, 255, 255>>}
QueryTriples == NearestTriples \cup {<<5, 5, 0>>, <<5, 0, 0>>, <<128, 128, 128>>, <<255, 255, 254>>}

\* NearestPaletteColor applied to one colour.
NearestCall ==
    /\ pc = "np_idle"
    /\ \E q \in QueryTriples :
          /\ np_in' = [r |-> q[1], g |-> q[2], b |-> q[3]]
          /\ np_out' = NearestPaletteColor(q[1], q[2], q[3])
    /\ pc' = "np_done"
    /\ UNCHANGED <<argv, palfile, parm_argc, parm_argv, parmVars, palVars,
                   working, i, mainVars, transVars, exit_status, errors, bp_in,
                   bp_out>>

\* ------------------------------------------------------------ initial states

ZeroPalette == [k \in 0..(PALSIZE - 1) |-> ZeroRGBA]
ZeroBytes == [j \in 0..(PALSIZE - 1) |-> 0]

\* The bytes of a palette file holding the given triples, in order.
TripleBytes(triples) == [j \in 0..(PALSIZE - 1) |-> triples[j \div 3][(j % 3) + 1]]

NoFile == [openable |-> FALSE, readable |-> FALSE, data |-> <<>>]

\* Everything but the inputs, the palette, the style and pc: static storage
\* is zeroed, locals hold nothing yet.
Statics ==
    /\ parm_argc = 0
    /\ parm_argv = <<>>
    /\ parm_palettefile = NULL
    /\ parm_outprefix = NULL
    /\ parm_outfiles = NULL
    /\ working = [o \in 0..(WorkingSize - 1) |-> 0]
    /\ i = 0
    /\ outfiles = <<>>
    /\ canblend = [k \in 0..(CanblendLen - 1) |-> 0]
    /\ cbwrites = {}
    /\ fp = "none"
    /\ trans = 0
    /\ blendamt = 0
    /\ x = 0
    /\ y = 0
    /\ log = <<>>
    /\ exit_status = "running"
    /\ errors = 0
    /\ bp_in = [background |-> ZeroRGBA, foreground |-> ZeroRGBA,
                style |-> AST_TRANSLUCENT, alpha |-> 0]
    /\ bp_out = ZeroRGBA
    /\ np_in = [r |-> 0, g |-> 0, b |-> 0]
    /\ np_out = 0

\* The palette as Pal_Read leaves it, for every choice of triples.
LoadedPalette(triples) ==
    /\ \E t \in [0..(PalCount - 1) -> triples] :
          /\ rpalette = TripleBytes(t)
          /\ palette = MakePalette(TripleBytes(t), ZeroPalette)

\* Characters of the -outfiles strings: '0', '1', '9', 'x'.
OutChars == {48, 49, 57, 120}
OutStrings == UNION {[1..n -> OutChars] : n \in 1..MaxOutLen}

\* Palette file contents: n bytes of triples that step from dark to light,
\* tinted by the seed.
FileData(seed, n) ==
    [j \in 1..n |->
        LET k == (j - 1) \div 3
            c == (j - 1) % 3
        IN  ((k * 60) + ((k \div 2) * 135) + (c * seed)) % ByteMod]

PalFiles ==
    {NoFile,
     [openable |-> TRUE, readable |-> TRUE, data |-> FileData(1, 0)],
     [openable |-> TRUE, readable |-> TRUE, data |-> FileData(2, PALSIZE - 1)],
     [openable |-> TRUE, readable |-> TRUE, data |-> FileData(0, PALSIZE)],
     [openable |-> TRUE, readable |-> TRUE, data |-> FileData(4, PALSIZE + 1)],
     [openable |-> TRUE, readable |-> FALSE, data |-> FileData(5, PALSIZE)]}

CmdLines ==
    {<<A_prog>>,
     <<A_prog, A_pal>>,
     <<A_prog, A_palette>>,
     <<A_prog, A_palette, A_pal>>,
     <<A_prog, A_PALETTE, A_pal, A_outfiles, <<>> >>,
     <<A_prog, A_outfiles, <<50, 49>>, A_palette>>,
     <<A_prog, A_palette, A_outfiles, <<49>> >>,
     <<A_prog, A_outfiles, <<57, 49>>, A_palette, A_pal>>,
     <<A_prog, A_outfiles, A_palette, A_pal>>,
     <<A_prog, A_outprefix, A_pre, A_blendstyle, S_add, A_palette, A_pal,
       A_outfiles, <<50>> >>}
    \cup {<<A_prog, A_palette, A_pal, A_outfiles, s>> : s \in OutStrings}

\* The program, from the start of main.
Init ==
    /\ argv \in CmdLines
    /\ palfile \in PalFiles
    /\ blendstyle = AST_TRANSLUCENT
    /\ rpalette = ZeroBytes
    /\ palette = ZeroPalette
    /\ pc = "start"
    /\ Statics

Next ==
    \/ MainUsage
    \/ MainStart
    \/ ParseOption
    \/ ParseSkip
    \/ ParseEnd
    \/ PaletteMissing
    \/ PalReadOpenFail
    \/ PalReadSizeFail
    \/ PalReadReadFail
    \/ PalReadOk
    \/ DoMainNoMemory
    \/ DoMainEnter
    \/ DoMainScan
    \/ DoMainScanOutside
    \/ DoMainScanEnd
    \/ DoMainLevelSkip
    \/ DoMainOpen
    \/ DoMainSprintfFault
    \/ DoMainBlend
    \/ BT_Cell
    \/ BT_Return
    \/ DoMainWrite
    \/ DoMainWriteNull
    \/ DoMainClose
    \/ DoMainCloseNull
    \/ DoMainDone

Spec == Init /\ [][Next]_vars

\* The command-line parser, on every command line of up to MaxArgs words.
ParseWords ==
    {A_blendstyle, A_BlendStyle, S_translucent, A_Add, S_subtract,
     S_reversesubtract, A_MODULATE, A_bogus, A_outprefix, A_palette,
     A_outfiles}

InitParse ==
    /\ \E n \in 0..MaxArgs : \E a \in [1..n -> ParseWords] : argv = <<A_prog>> \o a
    /\ palfile = NoFile
    /\ blendstyle = AST_TRANSLUCENT
    /\ rpalette = ZeroBytes
    /\ palette = ZeroPalette
    /\ pc = "start"
    /\ Statics

NextParse ==
    \/ MainUsage
    \/ MainStart
    \/ ParseOption
    \/ ParseSkip
    \/ ParseEnd

SpecParse == InitParse /\ [][NextParse]_vars

\* T_BlendTrans, on every loaded palette of these colours and every style.
TableTriples == {<<0, 0, 0>>, <<128, 128, 128>>, <<255, 255, 255>>}

InitTable ==
    /\ argv = <<A_prog>>
    /\ palfile = NoFile
    /\ blendstyle \in Styles
    /\ LoadedPalette(TableTriples)
    /\ pc = "bt_idle"
    /\ Statics

NextTable ==
    \/ TableCall
    \/ BT_Cell
    \/ BT_Return

SpecTable == InitTable /\ [][NextTable]_vars

\* NearestPaletteColor, on every loaded palette of these colours.
InitNearest ==
    /\ argv = <<A_prog>>
    /\ palfile = NoFile
    /\ blendstyle = AST_TRANSLUCENT
    /\ LoadedPalette(NearestTriples)
    /\ pc = "np_idle"
    /\ Statics

NextNearest == NearestCall

SpecNearest == InitNearest /\ [][NextNearest]_vars

\* ASTBlendPixel, on its own.
InitBlend ==
    /\ argv = <<A_prog>>
    /\ palfile = NoFile
    /\ blendstyle = AST_TRANSLUCENT
    /\ rpalette = ZeroBytes
    /\ palette = ZeroPalette
    /\ pc = "bp_idle"
    /\ Statics

NextBlend == BlendCall

SpecBlend == InitBlend /\ [][NextBlend]_vars

\* ------------------------------------------------------------------ claims

\* Squared RGB distance from the colour asked for to palette entry k.
C1_SqDist(k) ==
    (np_in.r - palette[k].red) * (np_in.r - palette[k].red)
    + (np_in.g - palette[k].green) * (np_in.g - palette[k].green)
    + (np_in.b - palette[k].blue) * (np_in.b - palette[k].blue)

C1_IsColour(k) ==
    palette[k].red = np_in.r /\ palette[k].green = np_in.g /\ palette[k].blue = np_in.b

(* C1: NearestPaletteColor returns the smallest index whose squared RGB     *)
(* distance to the query is minimal over all palette entries; in particular *)
(* it returns i for the colour of entry i when i is the first entry of that *)
(* colour.                                                                  *)
C1_NearestIsFirstMinimum ==
    pc = "np_done" =>
        /\ np_out \in 0..(PalCount - 1)
        /\ \A k \in 0..(PalCount - 1) : C1_SqDist(np_out) <= C1_SqDist(k)
        /\ \A k \in 0..(np_out - 1) : C1_SqDist(k) > C1_SqDist(np_out)
        /\ \A k \in 0..(PalCount - 1) :
              (C1_IsColour(k) /\ \A j \in 0..(k - 1) : ~C1_IsColour(j)) => np_out = k

\* Two entries tie at the minimum, which is not zero, behind a farther one.
C1_Witness ==
    /\ pc = "np_done"
    /\ np_out = 1
    /\ C1_SqDist(1) > 0
    /\ C1_SqDist(2) = C1_SqDist(1)
    /\ C1_SqDist(0) > C1_SqDist(1)

\* The alpha bytes of levels 1..9, truncated and rounded.
C2_Truncated == <<25, 51, 76, 102, 128, 153, 179, 204, 230>>
C2_Rounded == <<26, 51, 77, 102, 128, 154, 179, 205, 230>>

(* C2 (as amended): for every level L in 1..9 the alpha byte T_BlendTrans(L) *)
(* passes to ASTBlendPixel is L*25.6 truncated to an integer, that is       *)
(* (L*256) div 10: 25, 51, 76, 102, 128, 153, 179, 204, 230.                *)
C2_AlphaByteTruncated ==
    pc \in {"bt_loop", "bt_returned"} =>
        /\ trans \in 1..9
        /\ blendamt = (trans * 256) \div 10
        /\ blendamt = C2_Truncated[trans]

(* C2 (as claimed): the alpha byte is L*25.6 rounded to the nearest integer: *)
(* 26, 51, 77, 102, 128, 154, 179, 205, 230.                                *)
C2_AlphaByteRounded ==
    pc \in {"bt_loop", "bt_returned"} => blendamt = C2_Rounded[trans]

\* Level 3 is blending with 76, where rounding would give 77.
C2_Witness ==
    /\ pc = "bt_loop"
    /\ trans = 3
    /\ blendamt = 76
    /\ x > 0

\* An open that failed, at position k of the log.
C3_FailedOpen(k) == log[k].op = "open" /\ ~log[k].ok

(* C3: if opening an output file fails, the run ends with a failure status  *)
(* and an error message: nothing is written through the failed handle and   *)
(* no table is generated or written afterwards.                             *)
C3_OpenFailureEndsRun ==
    \A k \in 1..Len(log) :
        C3_FailedOpen(k) =>
            /\ \A j \in (k + 1)..Len(log) : log[j].op \notin {"open", "blend", "write"}
            /\ pc = "exit" => (exit_status = "EXIT_FAILURE" /\ errors > 0)

\* No word "-palette" is followed by another word.
C4_NoPaletteValue ==
    ~\E k \in 2..(Len(argv) - 1) : StrIEq(argv[k], A_palette)

\* The run has ended in failure with no table generated and no file opened.
C4_Rejected ==
    /\ pc \in {"start", "parse", "palette", "exit"}
    /\ pc = "exit" => exit_status = "EXIT_FAILURE"
    /\ log = <<>>
    /\ working = [o \in 0..(WorkingSize - 1) |-> 0]

\* Entries 0..255 hold the file's triples with alpha 255, and no other entry
\* of the array is touched.
C4_Loaded ==
    /\ \A k \in 0..(PalCount - 1) :
          palette[k] = RGBA(palfile.data[3 * k + 1], palfile.data[3 * k + 2],
                            palfile.data[3 * k + 3], 255)
    /\ \A k \in PalCount..(PALSIZE - 1) : palette[k] = ZeroRGBA

\* Pal_Read has been called and the program is past it.
C4_PastPalRead == parm_palettefile # NULL /\ pc \notin {"start", "parse", "palette"}

(* C4 (as amended): if no -palette value is supplied, or the palette file   *)
(* cannot be opened, or it is smaller than 768 bytes, or reading its first  *)
(* 768 bytes fails, the run ends with a failure status before any table is  *)
(* generated and before any output file is opened; a palette file of 768    *)
(* bytes or more whose first 768 bytes are read is accepted and loads       *)
(* exactly entries 0..255, each with alpha 255.                             *)
C4_PaletteChecked ==
    /\ C4_NoPaletteValue => (parm_palettefile = NULL /\ C4_Rejected)
    /\ (~palfile.openable \/ Len(palfile.data) < PALSIZE \/ ~palfile.readable)
          => C4_Rejected
    /\ (C4_PastPalRead /\ palfile.openable /\ Len(palfile.data) >= PALSIZE
            /\ palfile.readable)
          => C4_Loaded

(* C4 (as claimed): the same, with a palette file of 768 bytes or more      *)
(* always accepted.                                                         *)
C4_PaletteCheckedAsClaimed ==
    /\ C4_NoPaletteValue => (parm_palettefile = NULL /\ C4_Rejected)
    /\ (~palfile.openable \/ Len(palfile.data) < PALSIZE) => C4_Rejected
    /\ (C4_PastPalRead /\ palfile.openable /\ Len(palfile.data) >= PALSIZE)
          => C4_Loaded

\* A file one byte longer than the palette has been loaded.
C4_Witness ==
    /\ pc = "domain"
    /\ Len(palfile.data) = PALSIZE + 1
    /\ palette[PalCount - 1].alpha = 255
    /\ palette[PalCount].alpha = 0

\* The levels whose digit occurs in T_DoMain's outfiles string.
C5_Requested == {d \in 1..9 : \E k \in 1..Len(outfiles) : outfiles[k] = 48 + d}

\* The string holds digits 1..9 and non-digits only.
C5_NoZero == \A k \in 1..Len(outfiles) : outfiles[k] # 48

\* The tables generated and written so far, in order.
C5_IsTableOp(e) == e.op \in {"blend", "write"}
C5_Ops == SelectSeq(log, C5_IsTableOp)

\* The complete table of a level.
ExpectedTable(level) ==
    [o \in 0..(WorkingSize - 1) |->
        LET c == ASTBlendPixel(palette[o \div PalCount], palette[o % PalCount],
                               blendstyle, BlendAmt(level), ZeroRGBA)
        IN  NearestPaletteColor(c.red, c.green, c.blue)]

(* C5: for an -outfiles string of digits 1..9 and non-digits, T_DoMain      *)
(* generates and writes one table for each level whose digit occurs in the  *)
(* string and none for any other, in strictly ascending level order,        *)
(* whatever the order and repetition of the characters; each table is       *)
(* complete when it is written.                                             *)
C5_OneTablePerRequestedLevel ==
    C5_NoZero =>
        LET ops == C5_Ops
            requested == C5_Requested
        IN  /\ \A k \in 1..Len(ops) :
                  /\ ops[k].level \in requested
                  /\ ops[k].op = (IF k % 2 = 1 THEN "blend" ELSE "write")
                  /\ (k % 2 = 0) => /\ ops[k].level = ops[k - 1].level
                                    /\ ops[k].data = ExpectedTable(ops[k].level)
                  /\ (k % 2 = 1 /\ k > 2) => ops[k].level > ops[k - 1].level
            /\ (pc = "exit" /\ exit_status = "EXIT_SUCCESS") =>
                  /\ {ops[k].level : k \in {j \in 1..Len(ops) : ops[j].op = "write"}}
                        = requested
                  /\ Len(ops) = 2 * Cardinality(requested)

\* "919" has produced the tables of levels 1 and 9, in that order.
C5_Witness ==
    /\ pc = "exit"
    /\ exit_status = "EXIT_SUCCESS"
    /\ outfiles = <<57, 49, 57>>
    /\ Len(C5_Ops) = 4
    /\ C5_Ops[2].level = 1
    /\ C5_Ops[4].level = 9
    /\ C5_Ops[2].data # C5_Ops[4].data

(* C6: when T_BlendTrans(level) has returned, the byte at offset y*256+x is *)
(* NearestPaletteColor of the composite of palette[y] (background) and      *)
(* palette[x] (foreground) under the configured style and the level's alpha *)
(* byte, for every y and x: every cell was written by that call.            *)
C6_TableComplete ==
    pc = "bt_returned" =>
        \A yy \in 0..(PalCount - 1), xx \in 0..(PalCount - 1) :
            LET c == ASTBlendPixel(palette[yy], palette[xx], blendstyle,
                                   BlendAmt(trans), ZeroRGBA)
            IN  working[(yy * PalCount) + xx]
                    = NearestPaletteColor(c.red, c.green, c.blue)

\* Level 9 has returned with a table that is not the table of level 1.
C6_Witness ==
    /\ pc = "bt_returned"
    /\ trans = 9
    /\ working # ExpectedTable(1)
    /\ \E o \in DOMAIN working : working[o] # working[0]

\* The style a name stands for, or -1.
C7_NameStyle(name) ==
    CASE StrIEq(name, S_translucent) -> AST_TRANSLUCENT
      [] StrIEq(name, S_add) -> AST_ADD
      [] StrIEq(name, S_subtract) -> AST_SUBTRACT
      [] StrIEq(name, S_reversesubtract) -> AST_REVERSESUBTRACT
      [] StrIEq(name, S_modulate) -> AST_MODULATE
      [] OTHER -> -1

\* The command line is argv[0] followed by pairs of -blendstyle and a name.
C7_OnlyBlendstyle ==
    /\ Len(argv) % 2 = 1
    /\ \A k \in 1..((Len(argv) - 1) \div 2) : StrIEq(argv[2 * k], A_blendstyle)

\* The pairs whose name is recognised.
C7_Recognised == {k \in 1..((Len(argv) - 1) \div 2) : C7_NameStyle(argv[2 * k + 1]) # -1}

C7_LastRecognised == CHOOSE k \in C7_Recognised : \A j \in C7_Recognised : j <= k

\* Parm_Parse is about to process a -blendstyle argument whose name is not
\* recognised.
C7_AtUnrecognised ==
    /\ pc = "parse"
    /\ i + 1 < parm_argc
    /\ StrIEq(Argv(i), A_blendstyle)
    /\ C7_NameStyle(Argv(i + 1)) = -1

(* C7: after Parm_Parse has processed a sequence of -blendstyle arguments   *)
(* the style is that of the last recognised name (compared without regard   *)
(* to case), or Translucent if there is none; a -blendstyle argument with   *)
(* an unrecognised name leaves the style, the palette path, the output      *)
(* prefix and the outfiles selection unchanged.                             *)
C7_LastRecognisedStyleWins ==
    /\ [](pc = "palette" /\ C7_OnlyBlendstyle =>
             blendstyle = IF C7_Recognised = {} THEN AST_TRANSLUCENT
                          ELSE C7_NameStyle(argv[2 * C7_LastRecognised + 1]))
    /\ [][C7_AtUnrecognised => UNCHANGED parmVars]_vars

\* "-blendstyle Add -BlendStyle bogus" has left the style Add.
C7_Witness ==
    /\ pc = "palette"
    /\ argv = <<A_prog, A_blendstyle, A_Add, A_BlendStyle, A_bogus>>
    /\ blendstyle = AST_ADD

\* alpha_byte - (255 - F.alpha)
C8_Effective == bp_in.alpha - (255 - bp_in.foreground.alpha)

\* (B.channel*(255-e) + F.channel*e) div 255
C8_Mix(b, f, e) == ((b * (255 - e)) + (f * e)) \div 255

(* C8: for style Translucent, with effective = alpha_byte - (255 - F.alpha): *)
(* if effective <= 0 the result is exactly B; otherwise, when B.alpha is    *)
(* not zero, with e = min(effective, 255) each RGB channel is               *)
(* (B.channel*(255-e) + F.channel*e) div 255, within 0..255, and the alpha  *)
(* is 255, so e = 255 yields F's RGB.                                       *)
C8_TranslucentBlend ==
    (pc = "bp_done" /\ bp_in.style = AST_TRANSLUCENT) =>
        LET B == bp_in.background
            F == bp_in.foreground
            e == Min(C8_Effective, 255)
        IN  IF C8_Effective <= 0 THEN bp_out = B
            ELSE B.alpha # 0 =>
                    /\ bp_out.red = C8_Mix(B.red, F.red, e)
                    /\ bp_out.green = C8_Mix(B.green, F.green, e)
                    /\ bp_out.blue = C8_Mix(B.blue, F.blue, e)
                    /\ {bp_out.red, bp_out.green, bp_out.blue} \subseteq 0..255
                    /\ bp_out.alpha = 255
                    /\ e = 255 => /\ bp_out.red = F.red
                                  /\ bp_out.green = F.green
                                  /\ bp_out.blue = F.blue

\* A blend strictly between the two colours.
C8_Witness ==
    /\ pc = "bp_done"
    /\ bp_in.style = AST_TRANSLUCENT
    /\ C8_Effective \in 1..254
    /\ bp_in.background.alpha # 0
    /\ bp_out.red # bp_in.background.red
    /\ bp_out.red # bp_in.foreground.red

\* v/256 truncated toward zero, then clamped to 0..255.
C9_TruncClamp(v) ==
    IF v < 0 THEN 0 ELSE IF v \div 256 > 255 THEN 255 ELSE v \div 256

\* 256 times the value of a channel before truncation.
C9_Value(b, f) ==
    CASE bp_in.style = AST_ADD -> (256 * b) + (f * bp_in.alpha)
      [] bp_in.style = AST_SUBTRACT -> (256 * b) - (f * bp_in.alpha)
      [] bp_in.style = AST_REVERSESUBTRACT -> (f * bp_in.alpha) - (256 * b)
      [] bp_in.style = AST_MODULATE -> b * f

(* C9: for styles Add, Subtract, ReverseSubtract and Modulate the result    *)
(* has alpha 255 and each RGB channel is the value, truncated toward zero   *)
(* and clamped to 0..255, of B.c + F.c*alpha/256, B.c - F.c*alpha/256,      *)
(* -B.c + F.c*alpha/256 and B.c*F.c/256; the Modulate result does not       *)
(* depend on alpha_byte.                                                    *)
C9_StyledBlend ==
    (pc = "bp_done" /\ bp_in.style # AST_TRANSLUCENT) =>
        LET B == bp_in.background
            F == bp_in.foreground
        IN  /\ bp_out.alpha = 255
            /\ bp_out.red = C9_TruncClamp(C9_Value(B.red, F.red))
            /\ bp_out.green = C9_TruncClamp(C9_Value(B.green, F.green))
            /\ bp_out.blue = C9_TruncClamp(C9_Value(B.blue, F.blue))

\* An Add that is clamped at 255.
C9_Witness ==
    /\ pc = "bp_done"
    /\ bp_in.style = AST_ADD
    /\ (256 * bp_in.background.red) + (bp_in.foreground.red * bp_in.alpha) >= 256 * 256
    /\ bp_out.red = 255

(* C10: every store the digit scan of T_DoMain makes into canblend is at an *)
(* index within 0..8, also for strings that hold the digit '0'.             *)
C10_ScanStaysInCanblend == cbwrites \subseteq 0..(CanblendLen - 1)

====
